---- MODULE Spec2Model ----
(***************************************************************************)
(* A model of ckbit.rxn_ord (src/ckbit/rxn_ord.py): the Stan model-text    *)
(* generator, the data loader, the compiled-model cache and the three     *)
(* inference drivers.  Python strings are sequences of one-character      *)
(* strings, so that str.find, str.split and str.replace are computed as   *)
(* Python computes them.  An optional value (None or a value) is the      *)
(* empty sequence or a one-element sequence.                              *)
(***************************************************************************)
EXTENDS Integers, Sequences, FiniteSets, TLC

(* ------------------------------ bounds ------------------------------- *)

\* longest list of prior overrides passed to write_rxn_ord_stan_code
MaxPriors == 2

(* ------------------------- optional values --------------------------- *)

None == <<>>

Some(v) == <<v>>

IsNone(o) == o = <<>>

(* ------------------------- Python str methods ------------------------ *)

\* s[i..] starts with t (i is 1-based)
StartsAt(s, t, i) ==
    /\ i >= 1
    /\ i + Len(t) - 1 <= Len(s)
    /\ \A k \in 1..Len(t) : s[i + k - 1] = t[k]

\* the 1-based positions at which t occurs in s
Occurrences(s, t) == {i \in 1..(Len(s) - Len(t) + 1) : StartsAt(s, t, i)}

SetMin(S) == CHOOSE m \in S : \A n \in S : m <= n

\* str.find: the 0-based index of the first occurrence of t in s, or -1
Find(s, t) ==
    IF Occurrences(s, t) = {} THEN -1 ELSE SetMin(Occurrences(s, t)) - 1

\* str.replace from 1-based position i on: the text up to the next
\* occurrence of old, then new, then the rest after that occurrence.  old
\* is never empty here: every pattern of lines 57-64 ends in a fixed tail.
RECURSIVE ReplaceFrom(_, _, _, _)
ReplaceFrom(s, old, new, i) ==
    LET occ == {j \in Occurrences(s, old) : j >= i}
    IN  IF occ = {} THEN SubSeq(s, i, Len(s))
        ELSE SubSeq(s, i, SetMin(occ) - 1) \o new
             \o ReplaceFrom(s, old, new, SetMin(occ) + Len(old))

\* str.replace: every non-overlapping occurrence of old, left to right
Replace(s, old, new) == ReplaceFrom(s, old, new, 1)

\* s.split('~')[0]: the text before the first '~', or all of s
SplitTildeFirst(s) ==
    IF \E i \in 1..Len(s) : s[i] = "~"
    THEN SubSeq(s, 1, SetMin({i \in 1..Len(s) : s[i] = "~"}) - 1)
    ELSE s

(* ----------------------- the Stan code template ---------------------- *)

data_block ==
    <<"d","a","t","a"," ","{","\n"," "," ","i","n","t","<","l","o","w","e",
      "r","=","0",">"," ","N",";","\n"," "," ","v","e","c","t","o","r","[",
      "N","]"," ","x",";","\n"," "," ","v","e","c","t","o","r","[","N","]",
      " ","y",";","\n","}","\n">>

par_block ==
    <<"p","a","r","a","m","e","t","e","r","s"," ","{","\n"," "," ","r","e",
      "a","l"," ","i","n","t","e","r","c","e","p","t",";"," "," "," "," ",
      " "," "," "," "," "," ","/","/"," ","i","n","t","e","r","c","e","p",
      "t"," ","o","f"," ","b","e","s","t"," ","f","i","t"," ","l","i","n",
      "e","\n"," "," ","r","e","a","l"," ","r","x","n","_","o","r","d",";",
      " "," "," ","/","/"," ","s","l","o","p","e"," ","o","f"," ","b","e",
      "s","t"," ","f","i","t"," ","l","i","n","e","\n"," "," ","r","e","a",
      "l","<","l","o","w","e","r","=","0",">"," ","s","i","g","m","a",";",
      " "," "," "," "," "," "," "," "," "," "," "," "," "," "," ","/","/",
      " ","m","e","a","s","u","r","e","m","e","n","t"," ","e","r","r","o",
      "r","\n","}","\n">>

default_model_block ==
    <<"m","o","d","e","l"," ","{","\n"," "," ","s","i","g","m","a"," ","~",
      " ","c","a","u","c","h","y","(","0",","," ","1","0",")",";","\n"," ",
      " ","i","n","t","e","r","c","e","p","t"," ","~"," ","n","o","r","m",
      "a","l","(","1","0",",","1","0","0",")",";","\n"," "," ","r","x","n",
      "_","o","r","d"," ","~"," ","n","o","r","m","a","l","(","0",",","1",
      "0","0",")",";","\n"," "," ","y"," ","~"," ","n","o","r","m","a","l",
      "(","i","n","t","e","r","c","e","p","t"," ","+"," ","r","x","n","_",
      "o","r","d"," ","*"," ","x",","," ","s","i","g","m","a",")",";","}",
      "\n">>

\* the tails of the three default prior statements the overrides replace
CauchyTail ==
    <<"~"," ","c","a","u","c","h","y","(","0",","," ","1","0",")">>

Normal10Tail ==
    <<"~"," ","n","o","r","m","a","l","(","1","0",",","1","0","0",")">>

Normal0Tail ==
    <<"~"," ","n","o","r","m","a","l","(","0",",","1","0","0",")">>

\* the three substrings an override is searched for
StrSigma ==
    <<"s","i","g","m","a">>

StrIntercept ==
    <<"i","n","t","e","r","c","e","p","t">>

StrRxnOrd ==
    <<"r","x","n","_","o","r","d">>

(* ------------------------ prior override inputs ---------------------- *)

PriorSigma ==
    <<"s","i","g","m","a"," ","~"," ","n","o","r","m","a","l","(","0",",",
      " ","5",")">>

PriorIntercept ==
    <<"i","n","t","e","r","c","e","p","t"," ","~"," ","n","o","r","m","a",
      "l","(","0",","," ","1",")">>

PriorRxnOrd ==
    <<"r","x","n","_","o","r","d"," ","~"," ","u","n","i","f","o","r","m",
      "(","0",","," ","2",")">>

PriorZeta ==
    <<"z","e","t","a"," ","~"," ","n","o","r","m","a","l","(","0",","," ",
      "1",")">>

PriorSigmaZeta ==
    <<"s","i","g","m","a"," ","~"," ","n","o","r","m","a","l","(","0",",",
      " ","z","e","t","a"," ",")">>

PriorSigmaNoSpace ==
    <<"s","i","g","m","a","~"," ","n","o","r","m","a","l","(","0",","," ",
      "5",")">>

PriorInterceptSigma ==
    <<"i","n","t","e","r","c","e","p","t"," ","~"," ","n","o","r","m","a",
      "l","(","0",","," ","s","i","g","m","a",")">>

\* the override strings callers pass
PriorPool ==
    {PriorSigma, PriorIntercept, PriorRxnOrd, PriorZeta, PriorSigmaZeta,
     PriorSigmaNoSpace, PriorInterceptSigma}

RECURSIVE ListsUpTo(_, _)
ListsUpTo(S, n) ==
    IF n = 0 THEN {<<>>}
    ELSE LET shorter == ListsUpTo(S, n - 1)
         IN  shorter \cup {Append(l, x) : l \in {m \in shorter : Len(m) = n - 1}, x \in S}

\* the values of the priors argument: None, or a list of override strings
PriorsInputs == {None} \cup {Some(l) : l \in ListsUpTo(PriorPool, MaxPriors)}

(* --------------------- write_rxn_ord_stan_code ----------------------- *)

\* `if priors:` is false for None and for the empty list
PriorsTruthy(p) == ~IsNone(p) /\ Len(p[1]) > 0

\* one pass of the loop body on the current model block: the UserWarning
\* of lines 53-55, or the model block after the three conditional replaces
PriorStep(mb, prior) ==
    LET term == SplitTildeFirst(prior)
        m1 == IF Find(prior, StrSigma) # -1
              THEN Replace(mb, term \o CauchyTail, prior) ELSE mb
        m2 == IF Find(prior, StrIntercept) # -1
              THEN Replace(m1, term \o Normal10Tail, prior) ELSE m1
        m3 == IF Find(prior, StrRxnOrd) # -1
              THEN Replace(m2, term \o Normal0Tail, prior) ELSE m2
    IN  IF Find(mb, term) = -1
        THEN [raised |-> TRUE, model_block |-> mb]
        ELSE [raised |-> FALSE, model_block |-> m3]

RECURSIVE PriorLoop(_, _, _)
PriorLoop(mb, list, i) ==
    IF i > Len(list) THEN [raised |-> FALSE, model_block |-> mb]
    ELSE LET r == PriorStep(mb, list[i])
         IN  IF r.raised THEN r ELSE PriorLoop(r.model_block, list, i + 1)

\* the whole function: the UserWarning, or the returned code
write_rxn_ord_stan_code(p) ==
    LET r == IF PriorsTruthy(p) THEN PriorLoop(default_model_block, p[1], 1)
             ELSE [raised |-> FALSE, model_block |-> default_model_block]
    IN  IF r.raised THEN [raised |-> TRUE, code |-> <<>>]
        ELSE [raised |-> FALSE, code |-> data_block \o par_block \o r.model_block]

(* -------------------------- StanModel_cache -------------------------- *)

\* md5(...).hexdigest() is 32 hexadecimal digits
HexLen == 32

HexDigits ==
    <<"0","1","2","3","4","5","6","7","8","9","a","b","c","d","e","f">>

\* n < 256 written as HexLen hexadecimal digits
HexOf(n) ==
    [k \in 1..HexLen |->
        IF k = HexLen THEN HexDigits[(n % 16) + 1]
        ELSE IF k = HexLen - 1 THEN HexDigits[((n \div 16) % 16) + 1]
        ELSE "0"]

\* The cache reads its model_code argument only to hash it and to hand it
\* to the compiler, so the cache machine carries a model text by its number:
\* text i is the generator's output for the priors CodePriors[i].
CodeNos == {1, 2, 3}

CodePriors == <<None, Some(<<PriorSigma>>), Some(<<PriorIntercept>>)>>

CodeText(i) == write_rxn_ord_stan_code(CodePriors[i]).code

\* the number of a generated text
TextNo(code) == CHOOSE i \in CodeNos : CodeText(i) = code

\* md5 as an injective function of the text: the digest of text i is i,
\* written as HexLen hexadecimal digits
Md5HexDigest(code) == HexOf(code)

CachedPrefix ==
    <<"c","a","c","h","e","d","-">>

CachedModelPrefix ==
    <<"c","a","c","h","e","d","-","m","o","d","e","l","-">>

PklSuffix ==
    <<".","p","k","l">>

NameRxnOrd ==
    <<"r","x","n","_","o","r","d">>

NameModel ==
    <<"m","o","d","e","l">>

\* the values of the model_name argument
ModelNames == {None, Some(NameRxnOrd), Some(NameModel)}

\* a mutation: the name alone keys a named model
CacheFnNameOnly(code, name) ==
    IF IsNone(name) THEN CachedModelPrefix \o Md5HexDigest(code) \o PklSuffix
    ELSE CachedPrefix \o name[1] \o PklSuffix

\* lines 417-421: cache_fn
CacheFn(code, name) ==
    IF IsNone(name) THEN CachedModelPrefix \o Md5HexDigest(code) \o PklSuffix
    ELSE CachedPrefix \o name[1] \o <<"-">> \o Md5HexDigest(code) \o PklSuffix

Files == {CacheFn(c, n) : c \in CodeNos, n \in ModelNames}

\* what a path of the working directory holds
Absent == [kind |-> "absent", sm |-> None]

Unreadable == [kind |-> "unreadable", sm |-> None]

Truncated == [kind |-> "truncated", sm |-> None]

Pickle(m) == [kind |-> "pickle", sm |-> Some(m)]

\* pystan.StanModel(model_code=...): the compiled model, tagged with the
\* process that compiled it
StanModel(code, by) == [model_code |-> code, by |-> by]

\* a mutation: every open for reading fails
OpenRbNever(file) == FALSE

\* line 423: open(cache_fn, 'rb') succeeds on a file that exists and can be
\* read, whatever its content
OpenRbOk(file) == file.kind \in {"truncated", "pickle"}

\* line 429: pickle.load succeeds on a complete pickle only
PickleLoadOk(file) == file.kind = "pickle"

\* a mutation: the dump keeps a complete pickle that is already there
DumpKeepFirst(file, m) == IF file.kind = "pickle" THEN file ELSE Pickle(m)

\* line 427: pickle.dump(sm, f) on the file opened 'wb'
PickleDump(file, m) == Pickle(m)

(* ----------------------------- Python values ------------------------- *)

PyTuple(s) == [type |-> "tuple", val |-> s]

PyList(s) == [type |-> "list", val |-> s]

PyDict(f) == [type |-> "dict", val |-> f]

(* --------------------------- rxn_ord_exp_data ------------------------- *)

\* the most rows of the Data sheet
MaxRows == 1

\* rows of the Data sheet: a positive, a zero and a negative Pressure
DataRows ==
    {[Pressure |-> 2, Rate |-> 3], [Pressure |-> 0, Rate |-> -3],
     [Pressure |-> -1, Rate |-> 0]}

\* the spreadsheet named by filename: one that cannot be opened or has no
\* Data sheet with both columns, or a readable one with its rows
InputFiles ==
    {[ok |-> FALSE, rows |-> <<>>]}
    \cup {[ok |-> TRUE, rows |-> r] : r \in ListsUpTo(DataRows, MaxRows)}

Abs(v) == IF v < 0 THEN -v ELSE v

\* np.log of one value under numpy's default error state: it raises nothing,
\* the result is -inf at zero and nan below zero
NpLog(v) ==
    IF v > 0 THEN [kind |-> "finite", ln_of |-> v]
    ELSE IF v = 0 THEN [kind |-> "-inf", ln_of |-> v]
    ELSE [kind |-> "nan", ln_of |-> v]

\* lines 84-94: the parse fails, or the dictionary of N, x and y
rxn_ord_exp_data(file) ==
    IF ~file.ok THEN [raised |-> TRUE, data |-> None]
    ELSE [raised |-> FALSE,
          data |-> Some([N |-> Len(file.rows),
                         x |-> [i \in 1..Len(file.rows) |->
                                   NpLog(file.rows[i].Pressure)],
                         y |-> [i \in 1..Len(file.rows) |->
                                   NpLog(Abs(file.rows[i].Rate))]])]

(* ------------------------------ the drivers --------------------------- *)

\* the largest iters and warmup passed to MCMC
MaxIters == 2

ItersInputs == -1..MaxIters

WarmupInputs == {None} \cup {Some(w) : w \in 0..MaxIters}

\* the priors the drivers are called with: none, an override of sigma, one
\* written without the blank before '~', and one of an unknown term
DriverPriors ==
    {None, Some(<<PriorSigma>>), Some(<<PriorSigmaNoSpace>>), Some(<<PriorZeta>>)}

DriverNames == {None, Some(NameRxnOrd)}

\* int(iters/2): true division, then truncation toward zero
HalfOf(iters) == IF iters >= 0 THEN iters \div 2 ELSE -((-iters) \div 2)

\* a mutation: the test of line 168 written with >
WarmupRejectedStrict(warmup, iters) == warmup > iters

\* line 168: the test on an explicitly given warmup
WarmupRejected(warmup, iters) == warmup >= iters

\* StanModel_cache run to its end by a single caller on directory d;
\* wb_ok tells whether open(cache_fn, 'wb') succeeds on a path that cannot
\* be read.  ops lists the file operations and the compilation it makes.
RunStanModelCache(d, code, name, by, wb_ok) ==
    LET fn == CacheFn(code, name)
        compiled == StanModel(code, by)
    IN  IF OpenRbOk(d[fn])
        THEN IF PickleLoadOk(d[fn])
             THEN [raised |-> FALSE, sm |-> d[fn].sm, disk |-> d,
                   ops |-> <<"open_rb", "load">>]
             ELSE [raised |-> TRUE, sm |-> None, disk |-> d,
                   ops |-> <<"open_rb", "load">>]
        ELSE IF d[fn].kind = "unreadable" /\ ~wb_ok
             THEN [raised |-> TRUE, sm |-> None, disk |-> d,
                   ops |-> <<"open_rb", "compile", "open_wb">>]
             ELSE [raised |-> FALSE, sm |-> Some(compiled),
                   disk |-> [d EXCEPT ![fn] = PickleDump(Truncated, compiled)],
                   ops |-> <<"open_rb", "compile", "open_wb", "dump">>]

\* the parameters of the Stan model, and what the engine reports with them
ModelPars == {"intercept", "rxn_ord", "sigma"}

\* fit.extract(permuted=True): parameter name -> pooled draws
Extract == PyDict([n \in ModelPars \cup {"lp__"} |-> [draws_of |-> n]])

\* sm.optimizing(...): parameter name -> point estimate
PointEstimates == PyDict([n \in ModelPars |-> [estimate_of |-> n]])

\* the sampler_param_names lists sm.vb(...) returns: never empty, the engine
\* reports its own bookkeeping value besides the parameters
VbNameLists ==
    {<<"intercept", "rxn_ord", "sigma", "lp__">>, <<"sigma", "lp__">>, <<"lp__">>}

\* the result of sm.vb(...): sampler_params[i] holds the draws of
\* sampler_param_names[i]
VbResult(names) ==
    PyDict([sampler_param_names |-> PyList(names),
            sampler_params |->
                PyList([i \in 1..Len(names) |-> [draws_of |-> i]])])

\* a mutation: the slice keeps every name
KeepAll(l) == l

\* names[:-1]
AllButLast(l) == IF Len(l) = 0 THEN <<>> ELSE SubSeq(l, 1, Len(l) - 1)

\* lines 291-301: one row per name of names[:-1], with the statistics of
\* sample_vals[i]
DataTable(names, sample_vals) ==
    [i \in 1..Len(AllButLast(names)) |->
        [name |-> AllButLast(names)[i], stats_of |-> sample_vals[i]]]

(* ------------------------------- state ------------------------------- *)

\* the processes that call StanModel_cache in the same working directory
Procs == {"p1", "p2"}

VARIABLES
    gen_pc,         \* write_rxn_ord_stan_code: "idle", "loop", "returned", "raised"
    priors,         \* its argument
    gen_i,          \* the loop index i (0-based)
    model_block,    \* the local model_block
    code_rxn_ord,   \* the returned text (empty until it returns)
    c_pc,           \* StanModel_cache, per process: "idle", "open", "compile",
                    \* "open_wb", "dump", "load", "returned", "raised"
    c_code,         \* per process: the model_code argument
    c_name,         \* per process: the model_name argument
    cache_fn,       \* per process: the local cache_fn
    sm,             \* per process: the local sm (None until bound)
    disk,           \* the working directory: what each cache path holds
    c_hit,          \* per process: this call opened the cache file for reading
    c_compiled,     \* per process: this call compiled the model
    c_wrote,        \* per process: this call dumped to the cache file
    compiles,       \* per path: the compilations made for it so far
    last_writer,    \* per path: the process whose dump came last, if any
    calls,          \* the calls of StanModel_cache made so far
    d_pc,           \* the driver: "idle", "load_data", "write_code",
                    \* "check_warmup", "cache", "engine", "returned", "raised"
    d_fn,           \* the driver called: "MCMC", "VI", "MAP" ("none" when idle)
    d_args,         \* its arguments: file, model_name, priors, warmup, iters
    rxn_ord_data,   \* its local rxn_ord_data (None until bound)
    rxn_ord_code,   \* its local rxn_ord_code, by its number (0 until bound)
    warmup,         \* MCMC's local warmup (None until bound)
    d_sm,           \* its local sm (None until bound)
    effects,        \* what the call did outside itself so far: cache file
                    \* operations, the compilation, the engine calls
    printed,        \* what it printed
    d_ret,          \* what it returned (None until it returns)
    d_err           \* the exception that left it ("none" if none)

gen_vars == <<gen_pc, priors, gen_i, model_block, code_rxn_ord>>

cache_vars ==
    <<c_pc, c_code, c_name, cache_fn, sm, disk, c_hit, c_compiled, c_wrote,
      compiles, last_writer, calls>>

drv_vars ==
    <<d_pc, d_fn, d_args, rxn_ord_data, rxn_ord_code, warmup, d_sm, effects,
      printed, d_ret, d_err>>

vars == <<gen_vars, cache_vars, drv_vars>>

(* ------------------- write_rxn_ord_stan_code, by steps ---------------- *)

GenIdle ==
    /\ gen_pc = "idle"
    /\ priors = None
    /\ gen_i = 0
    /\ model_block = <<>>
    /\ code_rxn_ord = <<>>

\* lines 30-50: the call builds the three blocks
GenCall ==
    /\ gen_pc = "idle"
    /\ \E p \in PriorsInputs : priors' = p
    /\ model_block' = default_model_block
    /\ gen_i' = 0
    /\ gen_pc' = "loop"
    /\ UNCHANGED <<code_rxn_ord, cache_vars, drv_vars>>

\* lines 51-64: one iteration of the loop over the overrides
GenIter ==
    /\ gen_pc = "loop"
    /\ PriorsTruthy(priors)
    /\ gen_i < Len(priors[1])
    /\ LET r == PriorStep(model_block, priors[1][gen_i + 1])
       IN  /\ model_block' = r.model_block
           /\ gen_pc' = IF r.raised THEN "raised" ELSE "loop"
           /\ gen_i' = IF r.raised THEN gen_i ELSE gen_i + 1
    /\ UNCHANGED <<priors, code_rxn_ord, cache_vars, drv_vars>>

\* lines 65-66
GenReturn ==
    /\ gen_pc = "loop"
    /\ IF PriorsTruthy(priors) THEN gen_i = Len(priors[1]) ELSE TRUE
    /\ code_rxn_ord' = data_block \o par_block \o model_block
    /\ gen_pc' = "returned"
    /\ UNCHANGED <<priors, gen_i, model_block, cache_vars, drv_vars>>

(* ----------------------- StanModel_cache, by steps -------------------- *)

\* the calls of StanModel_cache one behaviour makes
MaxCalls == 2

NoFiles == [f \in Files |-> Absent]

\* a working directory as a run may find it: empty, or with one cache path
\* that cannot be read or that an interrupted run left truncated
StartDisks ==
    {NoFiles} \cup
    {[NoFiles EXCEPT ![f] = x] : f \in Files, x \in {Unreadable, Truncated}}

CacheIdle(d) ==
    /\ c_pc = [p \in Procs |-> "idle"]
    /\ c_code = [p \in Procs |-> 0]
    /\ c_name = [p \in Procs |-> None]
    /\ cache_fn = [p \in Procs |-> <<>>]
    /\ sm = [p \in Procs |-> None]
    /\ disk = d
    /\ c_hit = [p \in Procs |-> FALSE]
    /\ c_compiled = [p \in Procs |-> FALSE]
    /\ c_wrote = [p \in Procs |-> FALSE]
    /\ compiles = [f \in Files |-> 0]
    /\ last_writer = [f \in Files |-> None]
    /\ calls = 0

NotRunning(p) == c_pc[p] \in {"idle", "returned", "raised"}

\* lines 417-421: a process enters StanModel_cache and names the cache file
CacheCall(p) ==
    /\ NotRunning(p)
    /\ calls < MaxCalls
    /\ calls' = calls + 1
    /\ \E code \in CodeNos, name \in ModelNames :
          /\ c_code' = [c_code EXCEPT ![p] = code]
          /\ c_name' = [c_name EXCEPT ![p] = name]
          /\ cache_fn' = [cache_fn EXCEPT ![p] = CacheFn(code, name)]
    /\ c_pc' = [c_pc EXCEPT ![p] = "open"]
    /\ sm' = [sm EXCEPT ![p] = None]
    /\ c_hit' = [c_hit EXCEPT ![p] = FALSE]
    /\ c_compiled' = [c_compiled EXCEPT ![p] = FALSE]
    /\ c_wrote' = [c_wrote EXCEPT ![p] = FALSE]
    /\ UNCHANGED <<disk, compiles, last_writer, gen_vars, drv_vars>>

\* the same, with no other call in progress
CacheCallSeq(p) ==
    /\ \A q \in Procs : NotRunning(q)
    /\ CacheCall(p)

\* lines 422-424, 428: open(cache_fn, 'rb'); any exception selects the
\* except branch, success the else branch
TryOpen(p) ==
    /\ c_pc[p] = "open"
    /\ c_pc' = [c_pc EXCEPT ![p] =
                  IF OpenRbOk(disk[cache_fn[p]]) THEN "load" ELSE "compile"]
    /\ c_hit' = [c_hit EXCEPT ![p] = OpenRbOk(disk[cache_fn[p]])]
    /\ UNCHANGED <<c_code, c_name, cache_fn, sm, disk, c_compiled, c_wrote,
                   compiles, last_writer, calls, gen_vars, drv_vars>>

\* line 425: sm = pystan.StanModel(model_code=model_code)
Compile(p) ==
    /\ c_pc[p] = "compile"
    /\ sm' = [sm EXCEPT ![p] = Some(StanModel(c_code[p], p))]
    /\ c_compiled' = [c_compiled EXCEPT ![p] = TRUE]
    /\ compiles' = [compiles EXCEPT ![cache_fn[p]] = @ + 1]
    /\ c_pc' = [c_pc EXCEPT ![p] = "open_wb"]
    /\ UNCHANGED <<c_code, c_name, cache_fn, disk, c_hit, c_wrote,
                   last_writer, calls, gen_vars, drv_vars>>

\* line 426: open(cache_fn, 'wb') truncates the file; on a path that cannot
\* be read it may also fail, and the exception leaves the function
OpenWb(p) ==
    /\ c_pc[p] = "open_wb"
    /\ \E ok \in IF disk[cache_fn[p]].kind = "unreadable" THEN BOOLEAN ELSE {TRUE} :
          /\ c_pc' = [c_pc EXCEPT ![p] = IF ok THEN "dump" ELSE "raised"]
          /\ disk' = IF ok THEN [disk EXCEPT ![cache_fn[p]] = Truncated] ELSE disk
    /\ UNCHANGED <<c_code, c_name, cache_fn, sm, c_hit, c_compiled, c_wrote,
                   compiles, last_writer, calls, gen_vars, drv_vars>>

\* lines 427, 432: pickle.dump(sm, f), the file is closed, sm is returned
Dump(p) ==
    /\ c_pc[p] = "dump"
    /\ disk' = [disk EXCEPT ![cache_fn[p]] = PickleDump(@, sm[p][1])]
    /\ last_writer' = [last_writer EXCEPT ![cache_fn[p]] = Some(p)]
    /\ c_wrote' = [c_wrote EXCEPT ![p] = TRUE]
    /\ c_pc' = [c_pc EXCEPT ![p] = "returned"]
    /\ UNCHANGED <<c_code, c_name, cache_fn, sm, c_hit, c_compiled,
                   compiles, calls, gen_vars, drv_vars>>

\* lines 429-432: pickle.load(f) in the else branch, outside the try: on a
\* file that holds no complete pickle its exception leaves the function
Load(p) ==
    /\ c_pc[p] = "load"
    /\ IF PickleLoadOk(disk[cache_fn[p]])
       THEN /\ sm' = [sm EXCEPT ![p] = disk[cache_fn[p]].sm]
            /\ c_pc' = [c_pc EXCEPT ![p] = "returned"]
       ELSE /\ sm' = sm
            /\ c_pc' = [c_pc EXCEPT ![p] = "raised"]
    /\ UNCHANGED <<c_code, c_name, cache_fn, disk, c_hit, c_compiled, c_wrote,
                   compiles, last_writer, calls, gen_vars, drv_vars>>

(* ------------------------- the drivers, by steps ---------------------- *)

cache_locals ==
    <<c_pc, c_code, c_name, cache_fn, sm, c_hit, c_compiled, c_wrote,
      compiles, last_writer, calls>>

NoArgs ==
    [file |-> [ok |-> FALSE, rows |-> <<>>], model_name |-> None,
     priors |-> None, warmup |-> None, iters |-> 0]

DrvIdle ==
    /\ d_pc = "idle"
    /\ d_fn = "none"
    /\ d_args = NoArgs
    /\ rxn_ord_data = None
    /\ rxn_ord_code = 0
    /\ warmup = None
    /\ d_sm = None
    /\ effects = <<>>
    /\ printed = <<>>
    /\ d_ret = None
    /\ d_err = "none"

\* a working directory as a driver may find it: empty, or with the cache
\* path of the default model unreadable, truncated, or written by an
\* earlier run
DriverStartDisks ==
    {NoFiles} \cup
    {[NoFiles EXCEPT ![CacheFn(1, Some(NameRxnOrd))] = x] :
        x \in {Unreadable, Truncated, Pickle(StanModel(1, "p2"))}}

Effect(op, args) == [op |-> op, args |-> args]

\* lines 97-102, 161: a call of MCMC
CallMCMC ==
    /\ d_pc = "idle"
    /\ \E file \in InputFiles, name \in DriverNames, pr \in DriverPriors,
          w \in WarmupInputs, it \in ItersInputs :
          d_args' = [file |-> file, model_name |-> name, priors |-> pr,
                     warmup |-> w, iters |-> it]
    /\ d_fn' = "MCMC"
    /\ d_pc' = "load_data"
    /\ UNCHANGED <<rxn_ord_data, rxn_ord_code, warmup, d_sm, effects, printed,
                   d_ret, d_err, gen_vars, cache_vars>>

\* lines 195-201, 268: a call of VI
CallVI ==
    /\ d_pc = "idle"
    /\ \E file \in InputFiles, name \in DriverNames, pr \in DriverPriors :
          d_args' = [file |-> file, model_name |-> name, priors |-> pr,
                     warmup |-> None, iters |-> MaxIters]
    /\ d_fn' = "VI"
    /\ d_pc' = "load_data"
    /\ UNCHANGED <<rxn_ord_data, rxn_ord_code, warmup, d_sm, effects, printed,
                   d_ret, d_err, gen_vars, cache_vars>>

\* lines 336-339, 377: a call of MAP
CallMAP ==
    /\ d_pc = "idle"
    /\ \E file \in InputFiles, name \in DriverNames, pr \in DriverPriors :
          d_args' = [file |-> file, model_name |-> name, priors |-> pr,
                     warmup |-> None, iters |-> 0]
    /\ d_fn' = "MAP"
    /\ d_pc' = "load_data"
    /\ UNCHANGED <<rxn_ord_data, rxn_ord_code, warmup, d_sm, effects, printed,
                   d_ret, d_err, gen_vars, cache_vars>>

\* lines 163, 270, 379: rxn_ord_data = rxn_ord_exp_data(filename=filename)
DrvLoadData ==
    /\ d_pc = "load_data"
    /\ LET r == rxn_ord_exp_data(d_args.file)
       IN  /\ rxn_ord_data' = r.data
           /\ d_pc' = IF r.raised THEN "raised" ELSE "write_code"
           /\ d_err' = IF r.raised THEN "FileError" ELSE d_err
    /\ UNCHANGED <<d_fn, d_args, rxn_ord_code, warmup, d_sm, effects, printed,
                   d_ret, gen_vars, cache_vars>>

\* lines 165, 272, 381: rxn_ord_code = write_rxn_ord_stan_code(priors=priors)
DrvWriteCode ==
    /\ d_pc = "write_code"
    /\ LET r == write_rxn_ord_stan_code(d_args.priors)
       IN  /\ rxn_ord_code' = IF r.raised THEN rxn_ord_code ELSE TextNo(r.code)
           /\ d_pc' = IF r.raised THEN "raised"
                      ELSE IF d_fn = "MCMC" THEN "check_warmup" ELSE "cache"
           /\ d_err' = IF r.raised THEN "UserWarning:prior" ELSE d_err
    /\ UNCHANGED <<d_fn, d_args, rxn_ord_data, warmup, d_sm, effects, printed,
                   d_ret, gen_vars, cache_vars>>

\* lines 166-170: the default warmup, or the test of the given one
McmcWarmup ==
    /\ d_pc = "check_warmup"
    /\ IF IsNone(d_args.warmup)
       THEN /\ warmup' = Some(HalfOf(d_args.iters))
            /\ d_pc' = "cache"
            /\ d_err' = d_err
       ELSE /\ warmup' = d_args.warmup
            /\ d_pc' = IF WarmupRejected(d_args.warmup[1], d_args.iters)
                       THEN "raised" ELSE "cache"
            /\ d_err' = IF WarmupRejected(d_args.warmup[1], d_args.iters)
                        THEN "UserWarning:warmup" ELSE d_err
    /\ UNCHANGED <<d_fn, d_args, rxn_ord_data, rxn_ord_code, d_sm, effects,
                   printed, d_ret, gen_vars, cache_vars>>

\* lines 172, 274, 383: sm = StanModel_cache(model_code=rxn_ord_code,
\* model_name=model_name)
DrvCache ==
    /\ d_pc = "cache"
    /\ \E wb_ok \in IF disk[CacheFn(rxn_ord_code, d_args.model_name)].kind
                         = "unreadable" THEN BOOLEAN ELSE {TRUE} :
          LET r == RunStanModelCache(disk, rxn_ord_code, d_args.model_name,
                                     "p1", wb_ok)
          IN  /\ disk' = r.disk
              /\ d_sm' = r.sm
              /\ effects' = effects \o [i \in 1..Len(r.ops) |-> Effect(r.ops[i], <<>>)]
              /\ d_pc' = IF r.raised THEN "raised" ELSE "engine"
              /\ d_err' = IF r.raised THEN "CacheFileError" ELSE d_err
    /\ UNCHANGED <<d_fn, d_args, rxn_ord_data, rxn_ord_code, warmup, printed,
                   d_ret, gen_vars, cache_locals>>

\* lines 173-192: sm.sampling(...), which returns a fit or fails; then the
\* prints, the extraction of the draws and the return of (fit, sample_vals)
McmcSampling ==
    /\ d_pc = "engine"
    /\ d_fn = "MCMC"
    /\ effects' = Append(effects,
                         Effect("sampling", [data |-> rxn_ord_data[1],
                                             warmup |-> warmup[1],
                                             iter |-> d_args.iters]))
    /\ \E ok \in BOOLEAN :
          /\ d_pc' = IF ok THEN "returned" ELSE "raised"
          /\ d_err' = IF ok THEN d_err ELSE "EngineError"
          /\ printed' = IF ok THEN <<"fit", "runtime">> ELSE printed
          /\ d_ret' = IF ok
                      THEN Some(PyTuple(<<[type |-> "StanFit4Model", val |-> <<>>],
                                         Extract>>))
                      ELSE d_ret
    /\ UNCHANGED <<d_fn, d_args, rxn_ord_data, rxn_ord_code, warmup, d_sm,
                   gen_vars, cache_vars>>

\* lines 276-333: sm.vb(...), which returns its results or fails; then the
\* summary table of lines 291-303, the notices and the return of
\* (fit, sample_vals) with sample_vals = fit['sampler_params']
ViVb ==
    /\ d_pc = "engine"
    /\ d_fn = "VI"
    /\ effects' = Append(effects,
                         Effect("vb", [data |-> rxn_ord_data[1],
                                       iter |-> d_args.iters]))
    /\ \E ok \in BOOLEAN, names \in VbNameLists, at_max \in BOOLEAN :
          LET fit == VbResult(names)
              sample_vals == fit.val.sampler_params
              sample_names == fit.val.sampler_param_names
              data_table == DataTable(sample_names.val, sample_vals.val)
          IN  /\ d_pc' = IF ok THEN "returned" ELSE "raised"
              /\ d_err' = IF ok THEN d_err ELSE "EngineError"
              /\ printed' =
                    IF ok
                    THEN <<[what |-> "table", rows |-> data_table]>>
                         \o (IF at_max
                             THEN <<[what |-> "max iterations", rows |-> <<>>]>>
                             ELSE <<>>)
                         \o <<[what |-> "check convergence", rows |-> <<>>],
                              [what |-> "runtime", rows |-> <<>>]>>
                    ELSE printed
              /\ d_ret' = IF ok THEN Some(PyTuple(<<fit, sample_vals>>)) ELSE d_ret
    /\ UNCHANGED <<d_fn, d_args, rxn_ord_data, rxn_ord_code, warmup, d_sm,
                   gen_vars, cache_vars>>

\* lines 384-399: sm.optimizing(...), which returns the estimates or fails;
\* then the table and the return of point_estimates
MapOptimizing ==
    /\ d_pc = "engine"
    /\ d_fn = "MAP"
    /\ effects' = Append(effects,
                         Effect("optimizing", [data |-> rxn_ord_data[1]]))
    /\ \E ok \in BOOLEAN :
          /\ d_pc' = IF ok THEN "returned" ELSE "raised"
          /\ d_err' = IF ok THEN d_err ELSE "EngineError"
          /\ printed' = IF ok
                        THEN <<[what |-> "table", rows |-> PointEstimates.val],
                               [what |-> "runtime", rows |-> <<>>]>>
                        ELSE printed
          /\ d_ret' = IF ok THEN Some(PointEstimates) ELSE d_ret
    /\ UNCHANGED <<d_fn, d_args, rxn_ord_data, rxn_ord_code, warmup, d_sm,
                   gen_vars, cache_vars>>

(* --------------------------- specifications -------------------------- *)

\* one call of write_rxn_ord_stan_code
GenInit == GenIdle /\ CacheIdle(NoFiles) /\ DrvIdle

GenNext == GenCall \/ GenIter \/ GenReturn

SpecGen == GenInit /\ [][GenNext]_vars

\* processes calling StanModel_cache concurrently
CacheInit == GenIdle /\ DrvIdle /\ \E d \in StartDisks : CacheIdle(d)

CacheNext ==
    \E p \in Procs :
        CacheCall(p) \/ TryOpen(p) \/ Compile(p) \/ OpenWb(p) \/ Dump(p) \/ Load(p)

SpecCache == CacheInit /\ [][CacheNext]_vars

\* calls of StanModel_cache one after the other, from an empty directory
SeqInit == GenIdle /\ CacheIdle(NoFiles) /\ DrvIdle

SeqNext ==
    \E p \in Procs :
        CacheCallSeq(p) \/ TryOpen(p) \/ Compile(p) \/ OpenWb(p) \/ Dump(p) \/ Load(p)

SpecSeq == SeqInit /\ [][SeqNext]_vars

\* processes calling StanModel_cache concurrently, from an empty directory
SpecRace == SeqInit /\ [][CacheNext]_vars

\* one call of a driver
DrvInit == GenIdle /\ DrvIdle /\ \E d \in DriverStartDisks : CacheIdle(d)

DrvNext ==
    \/ CallMCMC \/ CallVI \/ CallMAP
    \/ DrvLoadData \/ DrvWriteCode \/ McmcWarmup \/ DrvCache
    \/ McmcSampling \/ ViVb \/ MapOptimizing

SpecDrv == DrvInit /\ [][DrvNext]_vars

(* ------------------------------- claims ------------------------------ *)

Finished(pc) == pc \in {"returned", "raised"}

\* MCMC was called with a warmup given and not below iters
ExplicitBadWarmup ==
    /\ d_fn = "MCMC"
    /\ ~IsNone(d_args.warmup)
    /\ d_args.warmup[1] >= d_args.iters

\* the two UserWarnings: an unknown prior term, a warmup not below iters
ConfigurationErrors == {"UserWarning:prior", "UserWarning:warmup"}

\* the call has not gone past the test of the warmup: nothing was compiled,
\* no cache file opened, read or written, no sampling call made
NothingContacted ==
    /\ effects = <<>>
    /\ IsNone(d_sm)
    /\ d_pc \notin {"cache", "engine", "returned"}

\* C1 (as stated): every call of MCMC with a given warmup >= iters raises a
\* configuration error before the engine is contacted: no compilation, no
\* read or write of the cache file and no sampling call happen in it.
C1_BadWarmupIsConfigurationError ==
    ExplicitBadWarmup =>
        /\ NothingContacted
        /\ Finished(d_pc) => d_err \in ConfigurationErrors

\* C1 (amended): every call of MCMC with a given warmup >= iters raises
\* before the engine is contacted: no compilation, no read or write of the
\* cache file and no sampling call happen in it; the exception is a
\* configuration error when the data file can be loaded, and the loader's
\* file error when it cannot.
C1_BadWarmupRaisesBeforeEngine ==
    ExplicitBadWarmup =>
        /\ NothingContacted
        /\ Finished(d_pc) =>
              IF d_args.file.ok THEN d_err \in ConfigurationErrors
              ELSE d_err = "FileError"

\* the test of line 168 has raised, with data and code in hand and nothing
\* contacted; also on the boundary warmup = iters
C1_Witness ==
    /\ ExplicitBadWarmup
    /\ d_args.warmup[1] = d_args.iters
    /\ d_pc = "raised"
    /\ d_err = "UserWarning:warmup"
    /\ ~IsNone(rxn_ord_data)
    /\ rxn_ord_code # 0
    /\ NothingContacted

\* the overrides of the call, as a list (empty for None)
Overrides == IF IsNone(priors) THEN <<>> ELSE priors[1]

\* the override's term occurs in the default model section
TermInDefault(o) == Find(default_model_block, SplitTildeFirst(o)) # -1

\* C2: a call of write_rxn_ord_stan_code whose list holds an override with a
\* term that does not occur in the default model section ends in the
\* UserWarning and returns no text, wherever that override stands in the
\* list and whatever precedes it.
C2_AbsentTermRaises ==
    (Finished(gen_pc) /\ \E i \in 1..Len(Overrides) : ~TermInDefault(Overrides[i]))
        => (gen_pc = "raised" /\ code_rxn_ord = <<>>)

ModelHead ==
    <<"m","o","d","e","l"," ","{","\n">>

Likelihood ==
    <<" "," ","y"," ","~"," ","n","o","r","m","a","l","(","i","n","t","e",
      "r","c","e","p","t"," ","+"," ","r","x","n","_","o","r","d"," ","*",
      " ","x",","," ","s","i","g","m","a",")",";","}","\n">>

StmtSigma ==
    <<"s","i","g","m","a"," ","~"," ","c","a","u","c","h","y","(","0",",",
      " ","1","0",")">>

StmtIntercept ==
    <<"i","n","t","e","r","c","e","p","t"," ","~"," ","n","o","r","m","a",
      "l","(","1","0",",","1","0","0",")">>

StmtRxnOrd ==
    <<"r","x","n","_","o","r","d"," ","~"," ","n","o","r","m","a","l","(",
      "0",",","1","0","0",")">>

\* what may stand in the place of a default prior statement: the overrides
\* that contain the statement's recognized substring, or, when there is
\* none, the default statement itself
Slot(recognized, default) ==
    LET over == {Overrides[i] : i \in {j \in 1..Len(Overrides) :
                                          Find(Overrides[j], recognized) # -1}}
    IN  IF over = {} THEN {default} ELSE over

\* C3: when every override's term occurs in the default model section, the
\* returned text holds every override verbatim, each default prior statement
\* whose recognized substring ('sigma', 'intercept', 'rxn_ord') occurs in an
\* override is replaced by such an override, and every other byte is that
\* of the text generated with no overrides.
C3_OverridesReplaceDefaults ==
    (Finished(gen_pc) /\ \A i \in 1..Len(Overrides) : TermInDefault(Overrides[i]))
        => /\ gen_pc = "returned"
           /\ \A i \in 1..Len(Overrides) : Find(code_rxn_ord, Overrides[i]) # -1
           /\ \E s1 \in Slot(StrSigma, StmtSigma),
                 s2 \in Slot(StrIntercept, StmtIntercept),
                 s3 \in Slot(StrRxnOrd, StmtRxnOrd) :
                 code_rxn_ord =
                     data_block \o par_block \o ModelHead
                     \o <<" ", " ">> \o s1 \o <<";", "\n">>
                     \o <<" ", " ">> \o s2 \o <<";", "\n">>
                     \o <<" ", " ">> \o s3 \o <<";", "\n">>
                     \o Likelihood

Entered(p) == c_pc[p] # "idle"

\* C4: with the digest injective in the text, two calls with the same text
\* and the same model_name compute the same cache filename, and two calls
\* with distinct texts compute distinct filenames, whatever the two names
\* (None included).
C4_FilenameKeyedByText ==
    \A p, q \in Procs :
        (Entered(p) /\ Entered(q)) =>
            /\ (c_code[p] = c_code[q] /\ c_name[p] = c_name[q])
                   => cache_fn[p] = cache_fn[q]
            /\ c_code[p] # c_code[q] => cache_fn[p] # cache_fn[q]

\* two calls in one state: distinct texts under the same name, and distinct
\* texts with one name absent
C4_Witness ==
    /\ Entered("p1") /\ Entered("p2")
    /\ c_code["p1"] # c_code["p2"]
    /\ c_name["p1"] = Some(NameModel)
    /\ c_name["p2"] \in {None, Some(NameModel)}
    /\ cache_fn["p1"] # cache_fn["p2"]

\* C5: no failure to read the cache file reaches the caller of
\* StanModel_cache: absent, not openable or not loadable, the file is a
\* cache miss, the model is recompiled, persisted and returned.
C5_ReadFailureIsMiss == \A p \in Procs : c_pc[p] # "raised"

\* C6: in sequential calls from an empty directory, a call that finds its
\* cache file absent compiles and writes it before returning, a call that
\* finds it present loads it and neither compiles nor writes; so each
\* filename is compiled for at most once, and the file holds the pickle
\* after every return.
C6_SequentialHitAndMiss ==
    /\ \A p \in Procs : c_pc[p] # "raised"
    /\ \A p \in Procs :
          c_pc[p] = "returned" =>
              /\ c_hit[p] => (~c_compiled[p] /\ ~c_wrote[p])
              /\ ~c_hit[p] => (c_compiled[p] /\ c_wrote[p])
              /\ disk[cache_fn[p]].kind = "pickle"
              /\ sm[p] = disk[cache_fn[p]].sm
    /\ \A f \in Files : compiles[f] <= 1

\* a miss followed by a hit on the same file
C6_Witness ==
    /\ c_pc["p1"] = "returned" /\ ~c_hit["p1"] /\ c_wrote["p1"]
    /\ c_pc["p2"] = "returned" /\ c_hit["p2"]
    /\ cache_fn["p1"] = cache_fn["p2"]
    /\ compiles[cache_fn["p1"]] = 1

\* both processes missed, compiled and dumped to the same path
BothCompiledAndWrote(p, q) ==
    /\ p # q
    /\ c_pc[p] = "returned" /\ c_pc[q] = "returned"
    /\ cache_fn[p] = cache_fn[q]
    /\ ~c_hit[p] /\ ~c_hit[q]
    /\ c_compiled[p] /\ c_compiled[q]
    /\ c_wrote[p] /\ c_wrote[q]

\* C7: when two concurrent first-time calls for the same model both find the
\* file absent, both compile and both write the same path (nothing locks
\* it), the file ends up holding the model of the process that wrote last.
C7_LastWriterWins ==
    \A p, q \in Procs :
        BothCompiledAndWrote(p, q) =>
            /\ ~IsNone(last_writer[cache_fn[p]])
            /\ disk[cache_fn[p]] =
                   Pickle(StanModel(c_code[p], last_writer[cache_fn[p]][1]))

\* the race is reachable: two compilations for one path, both dumped, and
\* the file holds the model compiled by the second process to dump
C7_Witness ==
    /\ BothCompiledAndWrote("p1", "p2")
    /\ compiles[cache_fn["p1"]] = 2
    /\ last_writer[cache_fn["p1"]] = Some("p2")
    /\ disk[cache_fn["p1"]] = Pickle(sm["p2"][1])
    /\ sm["p1"] # sm["p2"]

\* C8: in every sampling call MCMC makes, the warmup it passes is strictly
\* below the iter it passes, whatever the integer iters and whatever the
\* warmup, the default of half of iters included.
C8_SamplingWarmupBelowIters ==
    \A i \in 1..Len(effects) :
        effects[i].op = "sampling" => effects[i].args.warmup < effects[i].args.iter

\* C9: each of the three drivers returns a pair: the fit handle or the
\* estimate mapping first, a mapping from parameter name to values second.
C9_DriversReturnPair ==
    d_pc = "returned" =>
        /\ d_ret[1].type = "tuple"
        /\ Len(d_ret[1].val) = 2
        /\ d_ret[1].val[1].type \in {"StanFit4Model", "dict"}
        /\ d_ret[1].val[2].type = "dict"
        /\ DOMAIN d_ret[1].val[2].val \subseteq ModelPars \cup {"lp__"}

HasNonPositivePressure(file) ==
    file.ok /\ \E i \in 1..Len(file.rows) : file.rows[i].Pressure <= 0

\* C10: on a dataset with a Pressure that is zero or negative the data
\* loader fails with a numeric error and returns no dataset, so that no
\* such dataset reaches the model cache or an inference call.
C10_NonPositivePressureRejected ==
    (HasNonPositivePressure(d_args.file) /\ d_pc \notin {"idle", "load_data"})
        => /\ d_pc = "raised"
           /\ d_err = "NumericError"
           /\ IsNone(rxn_ord_data)
           /\ effects = <<>>

\* the names the engine returned to VI, the sample sequences, and the
\* table VI printed
VbNames == d_ret[1].val[1].val.sampler_param_names.val

VbSamples == d_ret[1].val[1].val.sampler_params.val

PrintedTable == printed[1].rows

ViReturned == d_fn = "VI" /\ d_pc = "returned"

\* C11: whatever sampler_param_names list the engine returns to VI, the
\* rows of the printed summary table are the names of that list in order
\* with exactly one name, the last, left out, and row i reports the
\* statistics of the i-th sample sequence.
C11_TableOmitsLastName ==
    ViReturned =>
        /\ printed[1].what = "table"
        /\ Len(PrintedTable) = Len(VbNames) - 1
        /\ \A i \in 1..Len(PrintedTable) :
              /\ PrintedTable[i].name = VbNames[i]
              /\ PrintedTable[i].stats_of = VbSamples[i]
        /\ \A i \in 1..Len(PrintedTable) : PrintedTable[i].name # VbNames[Len(VbNames)]

\* VI returned on the four-name list: three rows, sigma last, lp__ left out
C11_Witness ==
    /\ ViReturned
    /\ VbNames = <<"intercept", "rxn_ord", "sigma", "lp__">>
    /\ Len(PrintedTable) = 3
    /\ PrintedTable[3].name = "sigma"
    /\ PrintedTable[3].stats_of = VbSamples[3]

====
